---------------------------- MODULE Spec2Model ----------------------------
(***************************************************************************)
(* Scanline region labelling of advent2024 day12 (src/bin/day12):          *)
(* parse_plots / process_line / process_segment of parser.rs, the         *)
(* active-line table LastGardenScanLine, the segment extractor and         *)
(* PlotSegment of segment.rs and the region store BTreeMap<usize, Plot>.    *)
(*                                                                         *)
(* Sequences are 1-based here: the table index i of the model is the Rust  *)
(* index i-1.  Line numbers and coordinates keep the Rust values (0-based).*)
(***************************************************************************)
EXTENDS Integers, Sequences, FiniteSets, TLC

VARIABLES
    input,         \* the lines of the text read so far by parse_plots
    pc,            \* "lines" | "segments" | "done" | "panic" | "measured" | "aborted"
    line_counter,  \* state of get_line_number = id_generator(0)
    next_plot_id,  \* state of get_new_plot_id = id_generator(0)
    line,          \* process_line's parameter `line`
    segments,      \* what is left of extract_ranges(input) in process_line's fold
    plots,         \* the store: id -> set of <<line, segment>>
    g_line,        \* the previous line's table: seq of [seg, id, matched]
    new_g_line,    \* the table being built for the current line
    seg_id,        \* process_segment's third result, as last returned
    depr_ids,      \* process_segment's fourth result (None is <<>>)
    removed_ids,   \* ids taken out of the store by plots.remove (parser.rs:111)
    result,        \* what the caller's loop over the regions computed: id -> metrics
    call           \* a call of one function on its own: [fn, args, out]

parse_vars == <<input, pc, line_counter, next_plot_id, line, segments, plots,
                g_line, new_g_line, seg_id, depr_ids, removed_ids, result>>

vars == <<input, pc, line_counter, next_plot_id, line, segments, plots,
          g_line, new_g_line, seg_id, depr_ids, removed_ids, result, call>>

---------------------------------------------------------------------------
(* Bounds of the model and program constants *)

MaxWidth == 4
MaxLines == 2
WideWidth == 7
WideLines == 3
EdgeLines == 2
RaggedWidth == 2
RaggedLines == 3
PatternWidth == 6
QueryLines == 2
MaxCoord == 4
SeedBits == 8
KeyBits == 16

Labels == {"A", "X"}

SeedModulus == 2 ^ SeedBits

(* Helpers of the properties *)
Min(S) == CHOOSE x \in S : \A y \in S : x <= y
Max(S) == CHOOSE x \in S : \A y \in S : x >= y
Range(f) == {f[i] : i \in DOMAIN f}
Last(q) == q[Len(q)]

---------------------------------------------------------------------------
(* segment.rs: PlotSegment *)

PlotSegment(plant, start, end) == [plant |-> plant, start |-> start, end |-> end]

SegLen(s) == s.end - s.start

(* the comparisons admit equality: touching segments overlap *)
is_overlapping_touching(a, b) == a.start <= b.end /\ a.end >= b.start

is_overlapping(a, b) == a.start < b.end /\ a.end > b.start

(* extract_ranges: chunk_by(|a, b| a == b), idx a running u8 counter *)
ChunkEnd(row, i) ==
    Min({j \in i..Len(row) : j = Len(row) \/ row[j + 1] /= row[j]})

(* `idx = chunk.len()` for `idx += chunk.len()`: the position is lost *)
RECURSIVE ExtractFrom_restart(_, _, _)
ExtractFrom_restart(row, i, idx) ==
    IF i > Len(row) THEN <<>>
    ELSE LET j      == ChunkEnd(row, i)
             len    == (j - i + 1) % SeedModulus
         IN  <<PlotSegment(row[i], idx, len)>> \o ExtractFrom_restart(row, j + 1, len)

RECURSIVE ExtractFrom(_, _, _)
ExtractFrom(row, i, idx) ==
    IF i > Len(row) THEN <<>>
    ELSE LET j      == ChunkEnd(row, i)
             len    == (j - i + 1) % SeedModulus
             idx2   == (idx + len) % SeedModulus
         IN  <<PlotSegment(row[i], idx, idx2)>> \o ExtractFrom(row, j + 1, idx2)

extract_ranges(row) == ExtractFrom(row, 1, 0)

---------------------------------------------------------------------------
(* lib.rs: id_generator, one call of the closure on its state `start` *)

(* the closure forgets `start += 1` *)
id_generator_stuck(start) == [value |-> start, start |-> start]

id_generator(start) == [value |-> start, start |-> start + 1]

---------------------------------------------------------------------------
(* parser.rs: LastGardenScanLine *)

Entry(seg, id, matched) == [seg |-> seg, id |-> id, matched |-> matched]

(* take_while(|(lseg,_,_)| segment.end() > lseg.start()): length of the prefix kept *)
(* the early exit compares the starts: entries that begin inside the
   segment are cut off *)
RECURSIVE TakeWhileLen_start(_, _, _)
TakeWhileLen_start(g, segment, i) ==
    IF i <= Len(g) /\ segment.start >= g[i].seg.start
    THEN TakeWhileLen_start(g, segment, i + 1)
    ELSE i - 1

(* the early exit compares with the entry's end instead of its start *)
RECURSIVE TakeWhileLen_end(_, _, _)
TakeWhileLen_end(g, segment, i) ==
    IF i <= Len(g) /\ segment.end > g[i].seg.end
    THEN TakeWhileLen_end(g, segment, i + 1)
    ELSE i - 1

RECURSIVE TakeWhileLen(_, _, _)
TakeWhileLen(g, segment, i) ==
    IF i <= Len(g) /\ segment.end > g[i].seg.start
    THEN TakeWhileLen(g, segment, i + 1)
    ELSE i - 1

RECURSIVE FilterMatches(_, _, _, _)
FilterMatches(g, segment, i, n) ==
    IF i > n THEN <<>>
    ELSE (IF g[i].seg.plant = segment.plant /\ is_overlapping(g[i].seg, segment)
          THEN << <<i, g[i].id>> >> ELSE <<>>)
         \o FilterMatches(g, segment, i + 1, n)

(* only the first matching entry is returned *)
overlaps_first(g, segment) ==
    LET all == FilterMatches(g, segment, 1, TakeWhileLen(g, segment, 1))
    IN  IF all = <<>> THEN <<>> ELSE <<all[1]>>

overlaps(g, segment) == FilterMatches(g, segment, 1, TakeWhileLen(g, segment, 1))

(* the entry is pushed with its flag set *)
push_flagged(g, segment, id) == Append(g, Entry(segment, id, TRUE))

push(g, segment, id) == Append(g, Entry(segment, id, FALSE))

flag_matched(g, index) == [g EXCEPT ![index].matched = TRUE]

(* garden.rs: LastGardenScanLine::overlaps, the filter over the whole table *)
overlaps_full(g, segment) == FilterMatches(g, segment, 1, Len(g))

drain_unmatched(g) == SelectSeq(g, LAMBDA e : ~e.matched)

(* the closure of all() returns false: only the first entry is renamed *)
find_replace_first(g, from_id, to_id) ==
    LET hits == {i \in 1..Len(g) : g[i].id = from_id}
    IN  [i \in 1..Len(g) |->
            IF hits /= {} /\ i = Min(hits) THEN [g[i] EXCEPT !.id = to_id] ELSE g[i]]

find_replace_plot_id(g, from_id, to_id) ==
    [i \in 1..Len(g) |-> IF g[i].id = from_id THEN [g[i] EXCEPT !.id = to_id] ELSE g[i]]

---------------------------------------------------------------------------
(* plot.rs: Plot::insert / Plot::extend on the store, entry(id).or_default() *)

(* or_default() makes the region and the insert is lost on a new id *)
StoreInsert_default_only(P, id, y, seg) ==
    IF id \in DOMAIN P
    THEN [P EXCEPT ![id] = @ \cup {<<y, seg>>}]
    ELSE P @@ (id :> {})

StoreInsert(P, id, y, seg) ==
    IF id \in DOMAIN P
    THEN [P EXCEPT ![id] = @ \cup {<<y, seg>>}]
    ELSE P @@ (id :> {<<y, seg>>})

StoreExtend(P, id, rows) ==
    IF id \in DOMAIN P
    THEN [P EXCEPT ![id] = @ \cup rows]
    ELSE P @@ (id :> rows)

StoreRemove(P, id) == [k \in DOMAIN P \ {id} |-> P[k]]

(* the entries are stored under `line` instead of `line - 1` *)
RECURSIVE push_segments_same_line(_, _, _)
push_segments_same_line(P, g, ln) ==
    IF g = <<>> THEN P
    ELSE push_segments_same_line(StoreInsert(P, Head(g).id, ln, Head(g).seg), Tail(g), ln)

(* parser.rs: push_segments *)
RECURSIVE push_segments(_, _, _)
push_segments(P, g, ln) ==
    IF g = <<>> THEN P
    ELSE push_segments(StoreInsert(P, Head(g).id, ln - 1, Head(g).seg), Tail(g), ln)

---------------------------------------------------------------------------
(* plot.rs: the geometry of a Plot, rows: BTreeSet<(usize, PlotSegment)> *)

(* the entries are counted instead of their lengths *)
area_entries(rows) == Cardinality(rows)

(* plot.rs: Plot::area, the sum of len() over the rows *)
RECURSIVE area(_)
area(rows) ==
    IF rows = {} THEN 0
    ELSE LET e == CHOOSE x \in rows : TRUE
         IN  SegLen(e[2]) + area(rows \ {e})

(* What a call gives: a value, or the panic of an unwrap()/expect() *)
Ok(v) == [ok |-> TRUE, value |-> v]
Panic == [ok |-> FALSE, value |-> 0]

(* Seed::MAX, the largest coordinate *)
SeedMax == SeedModulus - 1

(* The order of the BTreeSet, segment.rs Ord: the plant first (one plant per
   Plot, and the bounding segments carry it), then start, then end *)
SegLeq(a, b) == a.start < b.start \/ (a.start = b.start /\ a.end <= b.end)

EntryLeq(e, f) == e[1] < f[1] \/ (e[1] = f[1] /\ SegLeq(e[2], f[2]))

EntryLt(e, f) == EntryLeq(e, f) /\ ~EntryLeq(f, e)

(* rows.first() and rows.last() of a non-empty set *)
FirstRow(rows) == CHOOSE e \in rows : \A f \in rows : EntryLeq(e, f)

LastRow(rows) == CHOOSE e \in rows : \A f \in rows : EntryLeq(f, e)

(* rows.range(lo..=hi) and rows.range(lo..hi) *)
RangeInclusive(rows, lo, hi) == {e \in rows : EntryLeq(lo, e) /\ EntryLeq(e, hi)}

RangeExclusive(rows, lo, hi) == {e \in rows : EntryLeq(lo, e) /\ EntryLt(e, hi)}

get_plot_y_range(rows) == FirstRow(rows)[1]..LastRow(rows)[1]

(* rows.first().unwrap() panics on an empty Plot *)
get_plot_bounding_segs(rows) ==
    IF rows = {} THEN Panic
    ELSE LET plant == FirstRow(rows)[2].plant
         IN  Ok(<<PlotSegment(plant, 0, 1), PlotSegment(plant, SeedMax - 1, SeedMax)>>)

(* segment.rs: get_overlap, `end - start` on the coordinate type; the
   subtraction underflows when the minimum of the ends is below the maximum
   of the starts *)
get_overlap_underflows(a, b) == Min({a.end, b.end}) < Max({a.start, b.start})

(* the span of the two segments is taken instead of their intersection *)
get_overlap_span(a, b) == (Max({a.end, b.end}) - Min({a.start, b.start})) % SeedModulus

get_overlap(a, b) == (Min({a.end, b.end}) - Max({a.start, b.start})) % SeedModulus

(* PlotSegment::count_horizontal_edges(row): the overlap of the segment with
   the segments of a neighbouring line, get_overlap summed over those that
   overlap it *)
RECURSIVE count_horizontal_edges(_, _)
count_horizontal_edges(seg, row) ==
    IF row = {} THEN 0
    ELSE LET e == CHOOSE x \in row : TRUE
         IN  (IF is_overlapping(e[2], seg) THEN get_overlap(e[2], seg) ELSE 0)
             + count_horizontal_edges(seg, row \ {e})

(* the overlap with the line below is not taken off *)
RECURSIVE RowEdges_above_only(_, _, _)
RowEdges_above_only(current_row, above_row, below_row) ==
    IF current_row = {} THEN 0
    ELSE LET e == CHOOSE x \in current_row : TRUE
         IN  2 * SegLen(e[2]) - count_horizontal_edges(e[2], above_row)
             + RowEdges_above_only(current_row \ {e}, above_row, below_row)

(* the sum of the closure of plot.rs:79-87 over current_row *)
RECURSIVE RowEdges(_, _, _)
RowEdges(current_row, above_row, below_row) ==
    IF current_row = {} THEN 0
    ELSE LET e == CHOOSE x \in current_row : TRUE
         IN  2 * SegLen(e[2])
             - count_horizontal_edges(e[2], above_row)
             - count_horizontal_edges(e[2], below_row)
             + RowEdges(current_row \ {e}, above_row, below_row)

(* the fold of plot.rs:64-100 over the lines y..last *)
RECURSIVE NorthSouthFold(_, _, _, _, _, _, _, _)
NorthSouthFold(rows, west, east, y, last, above_row, current_row, below_row) ==
    IF y > last THEN 0
    ELSE RowEdges(current_row, above_row, below_row)
         + NorthSouthFold(rows, west, east, y + 1, last, current_row, below_row,
                          RangeInclusive(rows, <<y + 2, west>>, <<y + 2, east>>))

(* the first above_row is the range of the lines usize::MAX-1..=usize::MAX,
   which no entry is on *)
edge_count_north_south(rows) ==
    LET b == get_plot_bounding_segs(rows)
    IN  IF ~b.ok THEN Panic
        ELSE LET west  == b.value[1]
                 east  == b.value[2]
                 start == FirstRow(rows)[1]
             IN  Ok(NorthSouthFold(rows, west, east, start, LastRow(rows)[1], {},
                        RangeInclusive(rows, <<start, west>>, <<start, east>>),
                        RangeInclusive(rows, <<start + 1, west>>, <<start + 1, east>>)))

(* the vertical edges are left out *)
perimeter_count_north_south(rows) == edge_count_north_south(rows)

perimeter_count(rows) ==
    LET ns == edge_count_north_south(rows)
    IN  IF ~ns.ok THEN Panic ELSE Ok(ns.value + Cardinality(rows) * 2)

(* plot.rs: Plot::sides_count.  The corners map has u16 keys: the keys
   s.start()*10 and s.end()*10 - 1 are computed at that width *)
KeyModulus == 2 ^ KeyBits

StartKey(seg) == (seg.start * 10) % KeyModulus

(* the end is not set off: it has the key of a start at the same place *)
EndKey_as_start(seg) == (seg.end * 10) % KeyModulus

EndKey(seg) == (seg.end * 10 - 1) % KeyModulus

(* insert, and remove when the key was there: the keys met an odd number of
   times are left *)
Corners(segs) ==
    {p \in {StartKey(e[2]) : e \in segs} \cup {EndKey(e[2]) : e \in segs} :
        (Cardinality({e \in segs : StartKey(e[2]) = p})
         + Cardinality({e \in segs : EndKey(e[2]) = p})) % 2 = 1}

(* the fold of plot.rs:120-149 over the lines y..last; segs is the window *)
RECURSIVE SidesFold(_, _, _, _, _, _, _)
SidesFold(rows, west, east, y, last, segs, sum) ==
    IF y > last THEN [last_line |-> segs, sum |-> sum]
    ELSE SidesFold(rows, west, east, y + 1, last,
                   RangeExclusive(rows, <<y, west>>, <<y + 1, east>>),
                   sum + Cardinality(Corners(segs)))

(* the two corners of each segment of the last line are left out *)
sides_count_open(rows) ==
    LET b == get_plot_bounding_segs(rows)
    IN  IF ~b.ok THEN Panic
        ELSE LET start == FirstRow(rows)[1]
                 f == SidesFold(rows, b.value[1], b.value[2], start, LastRow(rows)[1],
                                RangeExclusive(rows, <<start, b.value[1]>>,
                                                     <<start, b.value[2]>>), 0)
             IN  Ok(f.sum)

sides_count(rows) ==
    LET b == get_plot_bounding_segs(rows)
    IN  IF ~b.ok THEN Panic
        ELSE LET west  == b.value[1]
                 east  == b.value[2]
                 start == FirstRow(rows)[1]
                 f == SidesFold(rows, west, east, start, LastRow(rows)[1],
                                RangeExclusive(rows, <<start, west>>, <<start, east>>), 0)
             IN  Ok(f.sum + Cardinality(f.last_line) * 2)

---------------------------------------------------------------------------
(* parser.rs: process_segment *)

(* matched.sort_by_key(|(_,id)| *id): a stable sort *)
InsertById(sorted, m) ==
    LET k == Cardinality({i \in 1..Len(sorted) : sorted[i][2] <= m[2]})
    IN  SubSeq(sorted, 1, k) \o <<m>> \o SubSeq(sorted, k + 1, Len(sorted))

(* the sort is left out: the master is the leftmost match *)
SortById_unsorted(s) == s

RECURSIVE SortById(_)
SortById(s) ==
    IF s = <<>> THEN <<>>
    ELSE InsertById(SortById(SubSeq(s, 1, Len(s) - 1)), s[Len(s)])

(* the master is the last of the sorted matches: the largest id *)
MasterId_largest(g, matched) == g[matched[Len(matched)][1]].id

MasterId(g, matched) == g[matched[1][1]].id

(* the fold over matched, parser.rs:165-185 *)
RECURSIVE FoldMatched(_, _, _, _, _, _, _)
FoldMatched(matched, k, garden, g, master_id, depr, ln) ==
    IF k > Len(matched)
    THEN [plots |-> garden, g_line |-> g, seg_id |-> master_id, depr_ids |-> depr,
          granted |-> FALSE]
    ELSE LET index   == matched[k][1]
             g1      == flag_matched(g, index)
             seg     == g1[index].seg
             plot_id == g1[index].id
             garden1 == StoreInsert(garden, plot_id, ln - 1, seg)
             depr1   == IF plot_id /= master_id THEN Append(depr, plot_id) ELSE depr
         IN  FoldMatched(matched, k + 1, garden1, g1, master_id, depr1, ln)

(* a segment with no match is stored at once, at line - 1 *)
process_segment_stores_new(segment, P, g, ln, fresh_id) ==
    LET matched == overlaps(g, segment)
    IN  IF matched = <<>>
        THEN [plots |-> StoreInsert(P, fresh_id, ln - 1, segment), g_line |-> g,
              seg_id |-> fresh_id, depr_ids |-> <<>>, granted |-> TRUE]
        ELSE LET sorted == SortById(matched)
             IN  FoldMatched(sorted, 1, P, g, MasterId(g, sorted), <<>>, ln)

process_segment(segment, P, g, ln, fresh_id) ==
    LET matched == overlaps(g, segment)
    IN  IF matched = <<>>
        THEN \* get_plot_id() is called here and nowhere else
             [plots |-> P, g_line |-> g, seg_id |-> fresh_id, depr_ids |-> <<>>,
              granted |-> TRUE]
        ELSE LET sorted == SortById(matched)
             IN  FoldMatched(sorted, 1, P, g, MasterId(g, sorted), <<>>, ln)

(* garden.rs: process_segment, the same text as the one of parser.rs, calling
   the overlaps of garden.rs *)
process_segment_garden(segment, P, g, ln, fresh_id) ==
    LET matched == overlaps_full(g, segment)
    IN  IF matched = <<>>
        THEN [plots |-> P, g_line |-> g, seg_id |-> fresh_id, depr_ids |-> <<>>,
              granted |-> TRUE]
        ELSE LET sorted == SortById(matched)
             IN  FoldMatched(sorted, 1, P, g, MasterId(g, sorted), <<>>, ln)

---------------------------------------------------------------------------
(* parser.rs: process_line, the handling of the deprecated ids (107-125) *)

RECURSIVE MergeDeprecated(_, _, _, _, _, _, _)
MergeDeprecated(ids, k, P, g, ng, sid, removed) ==
    IF k > Len(ids)
    THEN [plots |-> P, g_line |-> g, new_g_line |-> ng, removed |-> removed,
          panicked |-> FALSE]
    ELSE LET plot_id == ids[k]
         IN  IF plot_id \notin DOMAIN P
             THEN \* plots.remove(&plot_id) is None: unwrap() panics
                  [plots |-> P, g_line |-> g, new_g_line |-> ng,
                   removed |-> removed, panicked |-> TRUE]
             ELSE LET plot == P[plot_id]
                      P1   == StoreRemove(P, plot_id)
                      P2   == StoreExtend(P1, sid, plot)
                      g1   == find_replace_plot_id(g, plot_id, sid)
                      ng1  == find_replace_plot_id(ng, plot_id, sid)
                  IN  MergeDeprecated(ids, k + 1, P2, g1, ng1, sid,
                                      removed \cup {plot_id})

---------------------------------------------------------------------------
(* The inputs: the lines of a rectangular grid over Labels, handed over one
   at a time by input.lines().  Covered are every grid of at most MaxLines
   lines of at most MaxWidth cells, and the grids of at most WideLines lines
   of WideWidth cells whose lines are all "A" but for "X" cells at the
   places of one of WideXSets, and the lines of the sample grid.  The grids
   that reach the last coordinate (EdgeRows) are parsed by EdgeSpec. *)

Rows(w) == [1..w -> Labels]

WideXSets == SUBSET {2, 4, 6} \cup {1..6, 1..WideWidth}

WideRows == {[i \in 1..WideWidth |-> IF i \in S THEN "X" ELSE "A"] : S \in WideXSets}

(* lines that reach the last coordinate: SeedMax cells, all "A" but for "X"
   at some of the first and the last two places *)
EdgeRows ==
    {[i \in 1..SeedMax |-> IF i \in S THEN "X" ELSE "A"] :
        S \in SUBSET {1, SeedMax - 1, SeedMax}}

EdgeNextRows(text) == IF Len(text) < EdgeLines THEN EdgeRows ELSE {}

(* lines of unequal lengths: every line of at most RaggedWidth cells, the
   empty line included, and the lines "AXAAAA", "AXAXAA", "AAAAAA" cut
   short at some lengths *)
RaggedPatterns ==
    {[i \in 1..PatternWidth |-> IF i \in S THEN "X" ELSE "A"] : S \in {{2}, {2, 4}, {}}}

RaggedRows ==
    UNION {Rows(w) : w \in 0..RaggedWidth}
    \cup {SubSeq(r, 1, n) : r \in RaggedPatterns,
                            n \in {0, 3, PatternWidth - 1, PatternWidth}}

RaggedNextRows(text) == IF Len(text) < RaggedLines THEN RaggedRows ELSE {}

RowsOfWidth(w) ==
    (IF w <= MaxWidth THEN Rows(w) ELSE {}) \cup {r \in WideRows : Len(r) = w}

LineBound(w) == IF w <= MaxWidth THEN MaxLines ELSE WideLines

(* src/bin/day12/sample.txt, the grid read by the tests of parser.rs and
   plot.rs: the 10 x 10 example of the puzzle, on which every value the two
   tests assert is met *)
Sample ==
    << <<"R", "R", "R", "R", "I", "I", "C", "C", "F", "F">>,
       <<"R", "R", "R", "R", "I", "I", "C", "C", "C", "F">>,
       <<"V", "V", "R", "R", "R", "C", "C", "F", "F", "F">>,
       <<"V", "V", "R", "C", "C", "C", "J", "F", "F", "F">>,
       <<"V", "V", "V", "V", "C", "J", "J", "C", "F", "E">>,
       <<"V", "V", "I", "V", "C", "C", "J", "J", "E", "E">>,
       <<"V", "V", "I", "I", "I", "C", "J", "J", "E", "E">>,
       <<"M", "I", "I", "I", "I", "I", "J", "J", "E", "E">>,
       <<"M", "I", "I", "I", "S", "I", "J", "E", "E", "E">>,
       <<"M", "M", "M", "I", "S", "S", "J", "E", "E", "E">> >>

(* The fixture grid as the specification prints it: lines 5, 6 and 9 differ
   from sample.txt *)
PrintedSample ==
    << <<"R", "R", "R", "R", "I", "I", "C", "C", "F", "F">>,
       <<"R", "R", "R", "R", "I", "I", "C", "C", "C", "F">>,
       <<"V", "V", "R", "R", "R", "C", "C", "F", "F", "F">>,
       <<"V", "V", "R", "C", "C", "C", "J", "F", "F", "F">>,
       <<"V", "V", "V", "V", "C", "J", "J", "C", "F", "F">>,
       <<"V", "V", "V", "C", "C", "J", "J", "E", "E", "E">>,
       <<"V", "V", "I", "I", "I", "C", "J", "J", "E", "E">>,
       <<"M", "I", "I", "I", "I", "I", "J", "J", "E", "E">>,
       <<"M", "I", "I", "S", "I", "J", "J", "E", "E", "E">>,
       <<"M", "M", "M", "I", "S", "S", "J", "E", "E", "E">> >>

(* The grid drawn in the comment of sides_count (plot.rs:130-134), "." read
   as "A": on its lines 1 and 2 a segment of the X region starts at the
   coordinate where another one ends on the line above *)
CornerGrid ==
    << <<"A", "A", "X", "X", "X", "X", "X", "X", "A", "A", "A">>,
       <<"X", "X", "X", "A", "A", "A", "X", "X", "X", "A", "A">>,
       <<"X", "X", "A", "X", "A", "A", "X", "X", "A", "A", "A">>,
       <<"X", "A", "A", "X", "X", "X", "X", "A", "A", "A", "A">> >>

IsPrefix(p, q) == Len(p) <= Len(q) /\ p = SubSeq(q, 1, Len(p))

SampleRows(text) ==
    {G[Len(text) + 1] : G \in {H \in {Sample, PrintedSample, CornerGrid} :
                                    Len(text) < Len(H) /\ IsPrefix(text, H)}}

NextRows(text) ==
    SampleRows(text)
    \cup IF text = <<>>
         THEN UNION {Rows(w) : w \in 1..MaxWidth} \cup WideRows
         ELSE IF Len(text) < LineBound(Len(text[1]))
              THEN RowsOfWidth(Len(text[1]))
              ELSE {}

(* no function is called on its own during a parse *)
NoCall == [fn |-> "none", args |-> <<>>, out |-> <<>>]

InitParse ==
    /\ input = <<>>
    /\ pc = "lines"
    /\ line_counter = 0
    /\ next_plot_id = 0
    /\ line = 0
    /\ segments = <<>>
    /\ plots = <<>>
    /\ g_line = <<>>
    /\ new_g_line = <<>>
    /\ seg_id = 0
    /\ depr_ids = <<>>
    /\ removed_ids = {}
    /\ result = <<>>

Init == InitParse /\ call = NoCall

(* parse_plots: input.lines() yields a line, the fold's closure draws its
   number and calls process_line, which starts with an empty new table and
   the line's segments *)
ReadLine(row) ==
    /\ pc = "lines"
    /\ input' = Append(input, row)
    /\ segments' = extract_ranges(row)
    /\ line' = id_generator(line_counter).value
    /\ line_counter' = id_generator(line_counter).start
    /\ new_g_line' = <<>>
    /\ pc' = "segments"
    /\ UNCHANGED <<next_plot_id, plots, g_line, seg_id, depr_ids, removed_ids, result,
                   call>>

BeginLine == \E row \in NextRows(input) : ReadLine(row)

(* the same, on the lines that reach the last coordinate *)
BeginEdgeLine == \E row \in EdgeNextRows(input) : ReadLine(row)

(* process_line: one turn of the fold over the line's segments.  r is what
   process_segment returns, m the state after the deprecated ids are dealt
   with (each bound once) *)
ProcessSegment ==
    /\ pc = "segments"
    /\ segments /= <<>>
    /\ \E r \in {process_segment(Head(segments), plots, g_line, line,
                                  id_generator(next_plot_id).value)} :
       \E m \in {MergeDeprecated(r.depr_ids, 1, r.plots, r.g_line,
                                 push(new_g_line, Head(segments), r.seg_id),
                                 r.seg_id, removed_ids)} :
           /\ next_plot_id' = IF r.granted THEN id_generator(next_plot_id).start
                                           ELSE next_plot_id
           /\ seg_id' = r.seg_id
           /\ depr_ids' = r.depr_ids
           /\ plots' = m.plots
           /\ g_line' = m.g_line
           /\ new_g_line' = m.new_g_line
           /\ removed_ids' = m.removed
           /\ pc' = IF m.panicked THEN "panic" ELSE "segments"
    /\ segments' = Tail(segments)
    /\ UNCHANGED <<input, line_counter, line, result, call>>

(* process_line: after the fold, the unmatched entries are stored and the
   new table is returned; parse_plots keeps it as g_line *)
EndLine ==
    /\ pc = "segments"
    /\ segments = <<>>
    /\ plots' = push_segments(plots, drain_unmatched(g_line), line)
    /\ g_line' = new_g_line
    /\ new_g_line' = <<>>
    /\ pc' = "lines"
    /\ UNCHANGED <<input, line_counter, next_plot_id, line, segments, seg_id,
                   depr_ids, removed_ids, result, call>>

(* parse_plots: input.lines() is exhausted;
   push_segments(&mut plots, g_line.drain(), get_line_number()) *)
Flush ==
    /\ pc = "lines"
    /\ plots' = push_segments(plots, g_line, id_generator(line_counter).value)
    /\ line_counter' = id_generator(line_counter).start
    /\ g_line' = <<>>
    /\ pc' = "done"
    /\ UNCHANGED <<input, next_plot_id, line, segments, new_g_line, seg_id,
                   depr_ids, removed_ids, result, call>>

(* The callers of parse_plots (the tests of parser.rs and plot.rs) loop over
   the regions returned and take each one's area, perimeter and sides; a
   panic of one of the calls ends the program *)
Metrics(rows) ==
    [area |-> Ok(area(rows)), perimeter |-> perimeter_count(rows),
     sides |-> sides_count(rows)]

Measure ==
    /\ pc = "done"
    /\ result' = [k \in DOMAIN plots |-> Metrics(plots[k])]
    /\ pc' = IF \A k \in DOMAIN plots :
                    result'[k].perimeter.ok /\ result'[k].sides.ok
             THEN "measured" ELSE "aborted"
    /\ UNCHANGED <<input, line_counter, next_plot_id, line, segments, plots, g_line,
                   new_g_line, seg_id, depr_ids, removed_ids, call>>

Next == BeginLine \/ ProcessSegment \/ EndLine \/ Flush \/ Measure

Spec == Init /\ [][Next]_vars

(* the same, on lines of unequal lengths *)
BeginRaggedLine == \E row \in RaggedNextRows(input) : ReadLine(row)

RaggedNext == BeginRaggedLine \/ ProcessSegment \/ EndLine \/ Flush \/ Measure

RaggedSpec == Init /\ [][RaggedNext]_vars

(* Two runs of the caller on one text, one after the other.  The first run
   reads any text of WideRows or of the sample; when it has ended, by the
   return of the geometry or by a panic, what it gave is kept in `call` and
   parse_plots is called again: every local is made anew (BTreeMap::new(),
   LastGardenScanLine::default(), id_generator(0)), and the second run reads
   the lines the first one read. *)
TwiceNextRows(text) ==
    SampleRows(text)
    \cup IF Len(text) < WideLines /\ (text = <<>> \/ Len(text[1]) = WideWidth)
         THEN WideRows ELSE {}

(* parse_plots and the geometry on these texts, run once *)
WideLine == \E row \in TwiceNextRows(input) : ReadLine(row)

WideNext == WideLine \/ ProcessSegment \/ EndLine \/ Flush \/ Measure

WideSpec == Init /\ [][WideNext]_vars

Triple(m) == <<m.area.value, m.perimeter.value, m.sides.value>>

(* the multiset of the triples of a result: triple -> number of regions *)
TripleBag(res) ==
    [t \in {Triple(res[k]) : k \in DOMAIN res} |->
        Cardinality({k \in DOMAIN res : Triple(res[k]) = t})]

Outcome == [pc |-> pc, triples |-> TripleBag(result)]

(* the store and the table of the run before are kept *)
Restart_keeps_store ==
    /\ input' = <<>>
    /\ pc' = "lines"
    /\ line_counter' = 0
    /\ next_plot_id' = 0
    /\ line' = 0
    /\ segments' = <<>>
    /\ new_g_line' = <<>>
    /\ seg_id' = 0
    /\ depr_ids' = <<>>
    /\ removed_ids' = {}
    /\ result' = <<>>
    /\ UNCHANGED <<plots, g_line>>

Restart ==
    /\ input' = <<>>
    /\ pc' = "lines"
    /\ line_counter' = 0
    /\ next_plot_id' = 0
    /\ line' = 0
    /\ segments' = <<>>
    /\ plots' = <<>>
    /\ g_line' = <<>>
    /\ new_g_line' = <<>>
    /\ seg_id' = 0
    /\ depr_ids' = <<>>
    /\ removed_ids' = {}
    /\ result' = <<>>

FirstRunLine ==
    /\ call.fn = "none"
    /\ \E row \in TwiceNextRows(input) : ReadLine(row)

Rerun ==
    /\ call.fn = "none"
    /\ pc \in {"measured", "panic", "aborted"}
    /\ call' = [fn |-> "parse_plots", args |-> input, out |-> Outcome]
    /\ Restart

SecondRunLine ==
    /\ call.fn = "parse_plots"
    /\ Len(input) < Len(call.args)
    /\ ReadLine(call.args[Len(input) + 1])

(* input.lines() is exhausted: in the second run, when the text of the
   first run is read *)
EndOfText ==
    /\ call.fn = "parse_plots" => input = call.args
    /\ Flush

TwiceNext ==
    \/ FirstRunLine \/ SecondRunLine \/ ProcessSegment \/ EndLine \/ EndOfText
    \/ Measure \/ Rerun

TwiceSpec == Init /\ [][TwiceNext]_vars

(* parse_plots and the geometry on the grids of EdgeRows *)
EdgeNext == BeginEdgeLine \/ ProcessSegment \/ EndLine \/ Flush \/ Measure

EdgeSpec == Init /\ [][EdgeNext]_vars

---------------------------------------------------------------------------
(* The functions of segment.rs and plot.rs called on their own, as the tests
   of segment.rs call them: the arguments are drawn at the start, a step is
   one call. *)

SegsUpTo(n) == {PlotSegment("A", s, e) : s \in 0..(n - 1), e \in 1..n} \ 
               {x \in {PlotSegment("A", s, e) : s \in 0..(n - 1), e \in 1..n} :
                    x.start >= x.end}

(* lines of SeedModulus and SeedModulus + 1 cells: more than the coordinate
   type can count *)
LongRows ==
    {[i \in 1..w |-> IF i \in S THEN "X" ELSE "A"] :
        w \in {SeedModulus, SeedModulus + 1}, S \in SUBSET {1, SeedMax, SeedModulus}}

CallRows ==
    UNION {Rows(w) : w \in 1..MaxWidth} \cup EdgeRows \cup LongRows
    \cup {<<>>, Sample[1]}

CallPlots ==
    {{}} \cup {{<<0, a>>} : a \in SegsUpTo(MaxCoord)}
         \cup {{<<0, a>>, <<1, b>>} : a \in SegsUpTo(2), b \in SegsUpTo(2)}

CallArgs ==
    {<<"segments", a, b>> : a \in SegsUpTo(MaxCoord), b \in SegsUpTo(MaxCoord)}
    \cup {<<"row", r>> : r \in CallRows}
    \cup {<<"plot", rows>> : rows \in CallPlots}

CallInit ==
    /\ InitParse
    /\ call \in {[fn |-> "none", args |-> x, out |-> <<>>] : x \in CallArgs}

Pending(kind) == call.fn = "none" /\ call.args[1] = kind

(* segment.rs: test_plotsegment_overlap *)
CallIsOverlapping ==
    /\ Pending("segments")
    /\ call' = [call EXCEPT !.fn = "is_overlapping",
                            !.out = is_overlapping(call.args[2], call.args[3])]
    /\ UNCHANGED parse_vars

(* `end - start` on the coordinate type: when it underflows the build with
   overflow checks panics and the one without wraps *)
GetOverlapOutcomes(a, b) ==
    {Ok(get_overlap(a, b))} \cup (IF get_overlap_underflows(a, b) THEN {Panic} ELSE {})

(* the caller keeps the segments that overlap, then takes get_overlap:
   .filter(|nseg| nseg.is_overlapping(seg)).map(|nseg| nseg.get_overlap(seg)) *)
CallGetOverlap ==
    /\ call.fn = "is_overlapping"
    /\ call.out = TRUE
    /\ \E o \in GetOverlapOutcomes(call.args[2], call.args[3]) :
           call' = [call EXCEPT !.fn = "get_overlap", !.out = o]
    /\ UNCHANGED parse_vars

(* extract_ranges collected: `chunk.len() as u8` truncates in every build,
   `idx += ...` panics with overflow checks on and wraps without them *)
RECURSIVE ExtractOverflows(_, _, _)
ExtractOverflows(row, i, idx) ==
    IF i > Len(row) THEN FALSE
    ELSE LET j   == ChunkEnd(row, i)
             len == (j - i + 1) % SeedModulus
         IN  idx + len >= SeedModulus
             \/ ExtractOverflows(row, j + 1, (idx + len) % SeedModulus)

ExtractOutcomes(row) ==
    {Ok(extract_ranges(row))}
    \cup (IF ExtractOverflows(row, 1, 0) THEN {[ok |-> FALSE, value |-> <<>>]} ELSE {})

(* segment.rs: test_scan_line *)
CallExtractRanges ==
    /\ Pending("row")
    /\ \E o \in ExtractOutcomes(call.args[2]) :
           call' = [call EXCEPT !.fn = "extract_ranges", !.out = o]
    /\ UNCHANGED parse_vars

GeometryFns == {"area", "perimeter_count", "sides_count"}

Geometry(fn, rows) ==
    CASE fn = "area" -> Ok(area(rows))
      [] fn = "perimeter_count" -> perimeter_count(rows)
      [] fn = "sides_count" -> sides_count(rows)

(* one of the geometry functions on a Plot, Plot::default() (no rows) included *)
CallGeometry ==
    /\ Pending("plot")
    /\ \E fn \in GeometryFns :
           call' = [call EXCEPT !.fn = fn, !.out = Geometry(fn, call.args[2])]
    /\ UNCHANGED parse_vars

CallNext == CallIsOverlapping \/ CallGetOverlap \/ CallExtractRanges \/ CallGeometry

CallSpec == CallInit /\ [][CallNext]_vars

---------------------------------------------------------------------------
(* The geometry functions called one at a time, in any order and any number
   of times, on the regions of the store parse_plots returned.  Snapshot is
   the caller's loop run at once, one region after another, kept in `call`
   with the store as returned; a Query is one call of one function on one
   region, kept in `result`.  All three take &self. *)
QueryNextRows(text) ==
    SampleRows(text)
    \cup IF Len(text) < QueryLines /\ (text = <<>> \/ Len(text[1]) = WideWidth)
         THEN WideRows ELSE {}

QueryLine == \E row \in QueryNextRows(input) : ReadLine(row)

Snapshot ==
    /\ pc = "done"
    /\ pc' = "queries"
    /\ call' = [fn |-> "geometry", args |-> plots,
                out |-> [k \in DOMAIN plots |-> Metrics(plots[k])]]
    /\ UNCHANGED <<input, line_counter, next_plot_id, line, segments, plots, g_line,
                   new_g_line, seg_id, depr_ids, removed_ids, result>>

(* sides_count takes the entries out of the region it is called on *)
AfterQuery_drains(P, k, fn) == IF fn = "sides_count" THEN [P EXCEPT ![k] = {}] ELSE P

(* the store after a call on the region k: the receiver is &self *)
AfterQuery(P, k, fn) == P

Query ==
    /\ pc = "queries"
    /\ \E k \in DOMAIN plots : \E fn \in GeometryFns :
           /\ result' = [id |-> k, fn |-> fn, out |-> Geometry(fn, plots[k])]
           /\ plots' = AfterQuery(plots, k, fn)
    /\ UNCHANGED <<input, pc, line_counter, next_plot_id, line, segments, g_line,
                   new_g_line, seg_id, depr_ids, removed_ids, call>>

QueryNext == QueryLine \/ ProcessSegment \/ EndLine \/ Flush \/ Snapshot \/ Query

QuerySpec == Init /\ [][QueryNext]_vars

---------------------------------------------------------------------------
(* Reference definitions the properties are stated against: the cells of
   the text, their 4-connected same-label components (a flood fill), the
   cells an entry covers. *)


Cells(G) == UNION {{<<r, c>> : c \in 0..(Len(G[r + 1]) - 1)} : r \in 0..(Len(G) - 1)}

LabelAt(G, cell) == G[cell[1] + 1][cell[2] + 1]

Neighbours(cell) ==
    {<<cell[1] - 1, cell[2]>>, <<cell[1] + 1, cell[2]>>,
     <<cell[1], cell[2] - 1>>, <<cell[1], cell[2] + 1>>}

RECURSIVE Flood(_, _, _, _)
Flood(G, cells, region, frontier) ==
    IF frontier = {} THEN region
    ELSE LET new == {n \in UNION {Neighbours(f) : f \in frontier} :
                        /\ n \in cells
                        /\ n \notin region
                        /\ LabelAt(G, n) = LabelAt(G, CHOOSE f \in frontier : TRUE)}
         IN  Flood(G, cells, region \cup new, new)

Component(G, cell) == Flood(G, Cells(G), {cell}, {cell})

RECURSIVE Peel(_, _)
Peel(G, remaining) ==
    IF remaining = {} THEN {}
    ELSE LET comp == Component(G, CHOOSE c \in remaining : TRUE)
         IN  {comp} \cup Peel(G, remaining \ comp)

Components(G) == Peel(G, Cells(G))

CellsOfEntry(e) == {<<e[1], c>> : c \in e[2].start..(e[2].end - 1)}

CellsOfEntries(rows) == UNION {CellsOfEntry(e) : e \in rows}

StoreRegions == {CellsOfEntries(plots[k]) : k \in DOMAIN plots}

LabelsAgree ==
    \A k \in DOMAIN plots : \A e \in plots[k] : \A cell \in CellsOfEntry(e) :
        cell \in Cells(input) /\ LabelAt(input, cell) = e[2].plant

StoreIsComponents ==
    /\ StoreRegions = Components(input)
    /\ Cardinality(DOMAIN plots) = Cardinality(Components(input))
    /\ LabelsAgree

Ended == pc \in {"done", "panic"}

RECURSIVE SumArea(_, _)
SumArea(P, ids) ==
    IF ids = {} THEN 0
    ELSE LET k == CHOOSE x \in ids : TRUE
         IN  area(P[k]) + SumArea(P, ids \ {k})

RECURSIVE CellCount(_)
CellCount(G) == IF G = <<>> THEN 0 ELSE Len(Head(G)) + CellCount(Tail(G))

---------------------------------------------------------------------------
(* C1: for every grid, parse_plots ends with the store's regions being
   exactly the maximal 4-connected same-label components of the grid (the
   reference flood fill): two cells are under one id iff a path of adjacent
   same-label cells joins them. *)
C1_EveryGridGivesComponents == Ended => (pc = "done" /\ StoreIsComponents)

(* Whenever parse_plots does return, its store is the components. *)
ReturnedStoreIsComponents == pc = "done" => StoreIsComponents

(* C2: for all grids, parsing ends with the sum of area() over the regions
   of the store equal to the number of cells of the grid. *)
C2_AreaSumIsCellCount ==
    Ended => (pc = "done" /\ SumArea(plots, DOMAIN plots) = CellCount(input))

(* Whenever parse_plots does return, the areas add up to the cell count. *)
ReturnedAreaSumIsCellCount ==
    pc = "done" => SumArea(plots, DOMAIN plots) = CellCount(input)

(* Two segments share a cell; the ids of the table entries of the segment's
   label that share a cell with it. *)
SharesCell(a, b) == \E c \in a.start..(a.end - 1) : c \in b.start..(b.end - 1)

MatchIndexes(g, segment) ==
    {i \in 1..Len(g) : g[i].seg.plant = segment.plant /\ SharesCell(g[i].seg, segment)}

MatchIds(g, segment) == {g[i].id : i \in MatchIndexes(g, segment)}

TableIds(g) == {g[i].id : i \in 1..Len(g)}

AllIds == TableIds(g_line) \cup TableIds(new_g_line) \cup DOMAIN plots \cup removed_ids

(* A turn of process_line's fold is about to take the segment Head(segments) *)
AtSegment == pc = "segments" /\ segments /= <<>>

---------------------------------------------------------------------------
(* C3: in a grid where one label forms two separate columns joined by a run
   of that label on the line beneath them (every other cell carrying the
   other label), parsing ends with exactly one region of that label, whose
   area is the cells of the two columns plus the joining run. *)
LabelColumns(row, lab) == {c \in 0..(Len(row) - 1) : row[c + 1] = lab}

JoinedColumns(G, lab) ==
    LET cols   == LabelColumns(G[1], lab)
        bottom == LabelColumns(G[Len(G)], lab)
    IN  /\ Len(G) >= 2
        /\ Cardinality(cols) = 2
        /\ Min(cols) + 1 < Max(cols)
        /\ \A r \in 1..(Len(G) - 1) : LabelColumns(G[r], lab) = cols
        /\ cols \subseteq bottom
        /\ bottom = Min(bottom)..Max(bottom)

RegionsOfLabel(lab) == {k \in DOMAIN plots : \E e \in plots[k] : e[2].plant = lab}

C3_JoinedColumnsOneRegion ==
    (Ended /\ Len(input) >= 2) =>
        \A lab \in Labels :
            JoinedColumns(input, lab) =>
                /\ pc = "done"
                /\ Cardinality(RegionsOfLabel(lab)) = 1
                /\ \A k \in RegionsOfLabel(lab) :
                       area(plots[k]) = 2 * (Len(input) - 1)
                                        + Cardinality(LabelColumns(input[Len(input)], lab))

C3_Witness ==
    /\ pc = "done"
    /\ Len(input) = 3
    /\ \E lab \in Labels : JoinedColumns(input, lab)
    /\ removed_ids /= {}

---------------------------------------------------------------------------
(* C4: when the same-label overlapping entries of the previous line's table
   carry several ids, the new segment is pushed into the new table under the
   smallest of them (as they stand in the table at that moment) and every
   other one of them is in the list of deprecated ids. *)
C4_PushedUnderMinimum ==
    [][ (AtSegment /\ Cardinality(MatchIds(g_line, Head(segments))) >= 2) =>
            LET ids == MatchIds(g_line, Head(segments))
            IN  /\ Len(new_g_line') = Len(new_g_line) + 1
                /\ Last(new_g_line').seg = Head(segments)
                /\ Last(new_g_line').id = Min(ids)
                /\ seg_id' = Min(ids)
                /\ Range(depr_ids') = ids \ {Min(ids)} ]_vars

C4_Witness ==
    /\ pc = "segments"
    /\ new_g_line /= <<>>
    /\ Cardinality(Range(depr_ids)) >= 2
    /\ Last(new_g_line).id = seg_id

---------------------------------------------------------------------------
(* C5: no entry of the old table, no entry of the new table and no key of
   the store carries an id that a merge has removed, also through a chain
   of merges on one line. *)
C5_NoStaleId ==
    \A id \in removed_ids :
        /\ id \notin DOMAIN plots
        /\ id \notin TableIds(g_line)
        /\ id \notin TableIds(new_g_line)

(* XXXXXXA / AXAAAXA / AAAXAAA: on the third line the first segment merges
   3 into 2 and the second one merges 2 into 1 *)
ChainGrid ==
    << [i \in 1..7 |-> IF i = 7 THEN "A" ELSE "X"],
       [i \in 1..7 |-> IF i \in {2, 6} THEN "X" ELSE "A"],
       [i \in 1..7 |-> IF i = 4 THEN "X" ELSE "A"] >>

C5_Witness ==
    /\ input = ChainGrid
    /\ pc = "segments"
    /\ segments = <<>>
    /\ removed_ids = {2, 3}
    /\ depr_ids = <<2>>
    /\ new_g_line[1].id = 1 /\ new_g_line[3].id = 1

---------------------------------------------------------------------------
(* C6: a segment with no same-label overlapping predecessor gets an id
   greater than every id in use or removed so far, equal to the number of
   such segments met before it in scan order (0, 1, 2, ...), and not among
   the removed ids. *)
IsFirstSight(G, r, i) ==
    LET s == extract_ranges(G[r])[i]
    IN  r = 1 \/ MatchIndexes([k \in 1..Len(extract_ranges(G[r - 1])) |->
                                  Entry(extract_ranges(G[r - 1])[k], 0, FALSE)], s) = {}

FirstSightsBefore(G, ln, done) ==
    Cardinality({p \in UNION {{<<r, i>> : i \in 1..Len(extract_ranges(G[r]))} :
                              r \in 1..(ln + 1)} :
                    /\ (p[1] < ln + 1 \/ p[2] <= done)
                    /\ IsFirstSight(G, p[1], p[2])})

C6_FreshIdsIncrease ==
    [][ (AtSegment /\ MatchIds(g_line, Head(segments)) = {}) =>
            LET id == Last(new_g_line').id
            IN  /\ \A k \in AllIds : id > k
                /\ id \notin removed_ids'
                /\ id = FirstSightsBefore(input, line, Len(new_g_line)) ]_vars

C6_Witness ==
    /\ pc = "segments"
    /\ new_g_line /= <<>>
    /\ removed_ids /= {}
    /\ MatchIds(g_line, Last(new_g_line).seg) = {}
    /\ Last(new_g_line).id = seg_id
    /\ seg_id > Max(removed_ids)

---------------------------------------------------------------------------
(* C7: when one new segment overlaps same-label entries of three or more
   distinct regions, the turn that takes it leaves the smallest of their ids
   in the store holding all their entries (those stored before and the
   matched entries of the previous line) and leaves no other of these ids in
   the store or in either table. *)
MergedIntoOne(ids) ==
    LET m == Min(ids)
    IN  /\ m \in DOMAIN plots'
        /\ plots'[m] = UNION {plots[k] : k \in ids \cap DOMAIN plots}
                       \cup {<<line - 1, g_line[i].seg>> :
                                 i \in MatchIndexes(g_line, Head(segments))}
        /\ \A k \in ids \ {m} :
               /\ k \notin DOMAIN plots'
               /\ k \notin TableIds(g_line')
               /\ k \notin TableIds(new_g_line')

C7_ThreeRegionsMergeAtOnce ==
    [][ (AtSegment /\ Cardinality(MatchIds(g_line, Head(segments))) >= 3) =>
            MergedIntoOne(MatchIds(g_line, Head(segments))) ]_vars

(* The same, for the turns that do not end in the panic of unwrap() *)
ThreeRegionsMergeUnlessPanic ==
    [][ (AtSegment /\ Cardinality(MatchIds(g_line, Head(segments))) >= 3
         /\ pc' /= "panic") =>
            MergedIntoOne(MatchIds(g_line, Head(segments))) ]_vars

ThreeRegionsMerged ==
    /\ pc = "segments"
    /\ Cardinality(Range(depr_ids)) >= 2
    /\ Range(depr_ids) \subseteq removed_ids

---------------------------------------------------------------------------
(* C8: after each line, two entries of the active-line table carry the same
   id if and only if their segments are connected through same-label cells
   of the lines read so far. *)
EntryCell(e) == <<Len(input) - 1, e.seg.start>>

C8_SameIdIffConnected ==
    pc = "lines" =>
        \A i, j \in 1..Len(g_line) :
            (g_line[i].id = g_line[j].id)
                <=> (EntryCell(g_line[j]) \in Component(input, EntryCell(g_line[i])))

(* two entries share an id after a line that bridged regions, while two
   other entries of one label still carry distinct ids *)
C8_Witness ==
    /\ pc = "lines"
    /\ Len(input) >= 3
    /\ removed_ids /= {}
    /\ \E i, j \in 1..Len(g_line) : i /= j /\ g_line[i].id = g_line[j].id
    /\ \E i, j \in 1..Len(g_line) :
           g_line[i].seg.plant = g_line[j].seg.plant /\ g_line[i].id /= g_line[j].id

---------------------------------------------------------------------------
(* C9: at the end of a line every unmatched entry of the previous line's
   table is in the store under its id at line-1 and the table kept is the
   new one; a region with no entry in either table keeps its id and its
   entries in the store through every later step. *)
Closed(k) ==
    /\ k \in DOMAIN plots
    /\ k \notin TableIds(g_line)
    /\ k \notin TableIds(new_g_line)

C9_UnmatchedStoredClosedKept ==
    [][ /\ (pc = "segments" /\ segments = <<>>) =>
               /\ \A i \in 1..Len(g_line) :
                      ~g_line[i].matched =>
                          /\ g_line[i].id \in DOMAIN plots'
                          /\ <<line - 1, g_line[i].seg>> \in plots'[g_line[i].id]
               /\ g_line' = new_g_line
        /\ \A k \in DOMAIN plots :
               Closed(k) => (k \in DOMAIN plots' /\ plots'[k] = plots[k]) ]_vars

(* a region closed after the first line, two more lines read *)
C9_Witness ==
    /\ pc = "done"
    /\ Len(input) = 3
    /\ \E k \in DOMAIN plots : \A e \in plots[k] : e[1] = 0

---------------------------------------------------------------------------
(* C10: parsing a grid of N lines ends with the union of the regions'
   entries being exactly the maximal runs of the lines, each under its own
   line number and in one region only, and with an empty table. *)
MaximalRuns(row) ==
    {s \in {PlotSegment(row[a + 1], a, b) : a \in 0..(Len(row) - 1), b \in 1..Len(row)} :
        /\ s.start < s.end
        /\ \A c \in s.start..(s.end - 1) : row[c + 1] = s.plant
        /\ (s.start = 0 \/ row[s.start] /= s.plant)
        /\ (s.end = Len(row) \/ row[s.end + 1] /= s.plant)}

RunsOfText(G) == UNION {{<<L, s>> : s \in MaximalRuns(G[L + 1])} : L \in 0..(Len(G) - 1)}

StoredEntries == UNION {plots[k] : k \in DOMAIN plots}

RECURSIVE EntryCount(_, _)
EntryCount(P, ids) ==
    IF ids = {} THEN 0
    ELSE LET k == CHOOSE x \in ids : TRUE
         IN  Cardinality(P[k]) + EntryCount(P, ids \ {k})

StoreIsRuns ==
    /\ StoredEntries = RunsOfText(input)
    /\ EntryCount(plots, DOMAIN plots) = Cardinality(RunsOfText(input))
    /\ g_line = <<>>

C10_StoreIsRunsOfText == Ended => (pc = "done" /\ StoreIsRuns)

(* Whenever parse_plots does return, the store holds the runs of the text *)
ReturnedStoreIsRuns == pc = "done" => StoreIsRuns

---------------------------------------------------------------------------
(* C11: for every region the parser returns, perimeter_count() is the number
   of unit edges between a cell of the region and a cell outside it (or the
   outside of the grid), and it is twice the number of entries plus, over
   the entries, twice the length less the cells it shares a column with on
   the region's line above and less those on the line below. *)
BoundaryEdges(S) ==
    Cardinality(UNION {{<<c, n>> : n \in Neighbours(c) \ S} : c \in S})

ColumnsShared(e, S, dy) ==
    Cardinality({c \in e[2].start..(e[2].end - 1) : <<e[1] + dy, c>> \in S})

RECURSIVE HorizontalEdgeSum(_, _)
HorizontalEdgeSum(todo, S) ==
    IF todo = {} THEN 0
    ELSE LET e == CHOOSE x \in todo : TRUE
         IN  2 * SegLen(e[2]) - ColumnsShared(e, S, -1) - ColumnsShared(e, S, 1)
             + HorizontalEdgeSum(todo \ {e}, S)

C11_PerimeterIsBoundaryEdges ==
    pc = "measured" =>
        \A k \in DOMAIN plots :
            /\ result[k].perimeter = Ok(BoundaryEdges(CellsOfEntries(plots[k])))
            /\ result[k].perimeter.value =
                   2 * Cardinality(plots[k])
                   + HorizontalEdgeSum(plots[k], CellsOfEntries(plots[k]))

(* AAAAAAA / AXAXAXA / AAAAAAA: a region with three holes, measured *)
C11_Witness ==
    /\ pc = "measured"
    /\ \E k \in DOMAIN plots :
           /\ Cardinality(plots[k]) = 6
           /\ result[k].area.value = 18
           /\ result[k].perimeter.value = 32

---------------------------------------------------------------------------
(* C12: for every region the parser returns (holes and concave corners
   included), sides_count() is the number of maximal straight sides of the
   region's boundary, which is the number of its convex and concave corners;
   the L-shaped region of three cells has 6. *)
Diagonals == {<<-1, -1>>, <<-1, 1>>, <<1, -1>>, <<1, 1>>}

IsCorner(S, c, d) ==
    LET v == <<c[1] + d[1], c[2]>> \in S
        h == <<c[1], c[2] + d[2]>> \in S
        x == <<c[1] + d[1], c[2] + d[2]>> \in S
    IN  (~v /\ ~h) \/ (v /\ h /\ ~x)

CornerCount(S) == Cardinality({p \in S \X Diagonals : IsCorner(S, p[1], p[2])})

(* a side facing direction d starts at the cell whose neighbour across d is
   outside while the previous cell along the side has no such edge *)
Facing == {<<-1, 0>>, <<1, 0>>, <<0, -1>>, <<0, 1>>}

HasEdge(S, c, d) == c \in S /\ <<c[1] + d[1], c[2] + d[2]>> \notin S

SideStarts(S, c, d) ==
    /\ HasEdge(S, c, d)
    /\ ~HasEdge(S, IF d[1] /= 0 THEN <<c[1], c[2] - 1>> ELSE <<c[1] - 1, c[2]>>, d)

SideCount(S) == Cardinality({p \in S \X Facing : SideStarts(S, p[1], p[2])})

LShape == << <<"A", "X">>, <<"A", "A">> >>

C12_SidesAreCorners ==
    pc = "measured" =>
        /\ \A k \in DOMAIN plots :
               /\ result[k].sides = Ok(SideCount(CellsOfEntries(plots[k])))
               /\ result[k].sides.value = CornerCount(CellsOfEntries(plots[k]))
        /\ input = LShape => result[0].sides.value = 6

(* the L of three cells, measured; and a region with three holes *)
C12_Witness ==
    /\ pc = "measured"
    /\ input = LShape
    /\ result[0].area.value = 3
    /\ result[0].sides.value = 6

C12_HolesWitness ==
    /\ pc = "measured"
    /\ \E k \in DOMAIN plots : Cardinality(plots[k]) = 6 /\ result[k].sides.value = 16

---------------------------------------------------------------------------
(* C13: a region whose cells are a full rectangle of width W and height H
   (W, H >= 1) has area W*H, perimeter 2*(W+H) and 4 sides; a single cell
   has area 1, perimeter 4 and 4 sides. *)
IsRectangle(S) ==
    /\ S /= {}
    /\ LET ys == {c[1] : c \in S}
           xs == {c[2] : c \in S}
       IN  S = (Min(ys)..Max(ys)) \X (Min(xs)..Max(xs))

RectWidth(S) == Cardinality({c[2] : c \in S})

RectHeight(S) == Cardinality({c[1] : c \in S})

C13_RectangleMetrics ==
    pc = "measured" =>
        \A k \in DOMAIN plots :
            LET S == CellsOfEntries(plots[k])
            IN  IsRectangle(S) =>
                    /\ result[k].area = Ok(RectWidth(S) * RectHeight(S))
                    /\ result[k].perimeter = Ok(2 * (RectWidth(S) + RectHeight(S)))
                    /\ result[k].sides = Ok(4)
                    /\ Cardinality(S) = 1 =>
                           /\ result[k].area.value = 1
                           /\ result[k].perimeter.value = 4
                           /\ result[k].sides.value = 4

(* a single cell and a rectangle of two lines and at least two columns in
   one measured store *)
C13_Witness ==
    /\ pc = "measured"
    /\ \E k \in DOMAIN plots :
           /\ Cardinality(CellsOfEntries(plots[k])) = 1
           /\ result[k] = [area |-> Ok(1), perimeter |-> Ok(4), sides |-> Ok(4)]
    /\ \E k \in DOMAIN plots :
           LET S == CellsOfEntries(plots[k])
           IN  IsRectangle(S) /\ RectWidth(S) >= 2 /\ RectHeight(S) >= 2
               /\ result[k].sides.value = 4

---------------------------------------------------------------------------
(* C14: on the sample grid parsing ends with exactly the 11 regions 0..10,
   granted in first-seen order, with (area, perimeter) R(12,18), I(4,8),
   C(14,28), F(10,18), V(13,20), J(11,20), C(1,4), E(13,18), I(14,22),
   M(5,12), S(3,8) and sides 10, 4, 22, 12, 10, 12, 4, 8, 16, 6, 6. *)
SampleLabels == <<"R", "I", "C", "F", "V", "J", "C", "E", "I", "M", "S">>

SampleAreas == <<12, 4, 14, 10, 13, 11, 1, 13, 14, 5, 3>>

SamplePerimeters == <<18, 8, 28, 18, 20, 20, 4, 18, 22, 12, 8>>

SampleSides == <<10, 4, 22, 12, 10, 12, 4, 8, 16, 6, 6>>

PrintedSampleHasFourteenRegions ==
    (pc = "measured" /\ input = PrintedSample) =>
        /\ DOMAIN plots = 0..13
        /\ result[2].area = Ok(13)
        /\ StoreIsComponents

---------------------------------------------------------------------------
(* C15: parsing the empty text ends without error in a store with no
   region, and line - 1 is never computed while the line number is 0:
   the final flush finds an empty table when no line was read, the fold
   and pass B of line 0 find an empty previous table, and no entry of the
   store carries a line below 0. *)
C15_EmptyTextNoRegions ==
    /\ input = <<>> => (pc \in {"lines", "done", "measured"} /\ plots = <<>>)
    /\ (pc = "lines" /\ line_counter = 0) => g_line = <<>>
    /\ (pc = "segments" /\ line = 0) => g_line = <<>>
    /\ \A k \in DOMAIN plots : \A e \in plots[k] : e[1] >= 0

(* the empty text, parsed and measured *)
C15_Witness ==
    /\ pc = "measured"
    /\ input = <<>>
    /\ plots = <<>>
    /\ result = <<>>
    /\ line_counter = 1

---------------------------------------------------------------------------
(* C16: is_overlapping(a, b) holds exactly when the half-open intervals of
   a and b share a cell; it is symmetric, holds for a segment against
   itself and is false when one segment ends where the other starts. *)
C16_OverlapIsSharedCell ==
    call.fn = "is_overlapping" =>
        LET a == call.args[2]
            b == call.args[3]
        IN  /\ call.out = SharesCell(a, b)
            /\ call.out = is_overlapping(b, a)
            /\ a = b => call.out
            /\ (a.end = b.start \/ b.end = a.start) => ~call.out

(* a pair that touches without overlapping, tested *)
C16_Witness ==
    /\ call.fn = "is_overlapping"
    /\ call.args[2].end = call.args[3].start
    /\ call.out = FALSE

---------------------------------------------------------------------------
(* C17: get_overlap is called on overlapping pairs only; for such a pair it
   returns min(a.end, b.end) - max(a.start, b.start), which is the number
   of cells the two segments share, at least 1, the same with the
   arguments exchanged, and the subtraction does not underflow. *)
CommonCells(a, b) == {c \in a.start..(a.end - 1) : c \in b.start..(b.end - 1)}

C17_OverlapLength ==
    call.fn = "get_overlap" =>
        LET a == call.args[2]
            b == call.args[3]
        IN  /\ SharesCell(a, b)
            /\ ~get_overlap_underflows(a, b)
            /\ call.out = Ok(Cardinality(CommonCells(a, b)))
            /\ call.out.value >= 1
            /\ call.out.value = get_overlap(b, a)

(* two segments that overlap in part: neither holds the other *)
C17_Witness ==
    /\ call.fn = "get_overlap"
    /\ call.args[2].start < call.args[3].start
    /\ call.args[2].end < call.args[3].end
    /\ call.out = Ok(call.args[2].end - call.args[3].start)
    /\ call.out.value = 2

---------------------------------------------------------------------------
(* C18: for a row of at most Seed::MAX cells extract_ranges yields the
   maximal same-label runs from left to right: the first starts at 0, each
   starts where the one before ends, the last ends at the row's length,
   every run has start < end and carries the label of all its cells, and
   consecutive runs differ in label. *)
IsRunsOf(row, runs) ==
    /\ (row = <<>>) <=> (runs = <<>>)
    /\ runs /= <<>> => (runs[1].start = 0 /\ Last(runs).end = Len(row))
    /\ \A i \in 1..Len(runs) :
           /\ runs[i].start < runs[i].end
           /\ \A c \in runs[i].start..(runs[i].end - 1) : row[c + 1] = runs[i].plant
           /\ i < Len(runs) =>
                  /\ runs[i + 1].start = runs[i].end
                  /\ runs[i + 1].plant /= runs[i].plant

C18_ExtractGivesMaximalRuns ==
    (call.fn = "extract_ranges" /\ Len(call.args[2]) <= SeedMax) =>
        /\ call.out.ok
        /\ IsRunsOf(call.args[2], call.out.value)

(* the line of test_scan_line, and a line of Seed::MAX cells in three runs *)
C18_Witness ==
    /\ call.fn = "extract_ranges"
    /\ call.args[2] = Sample[1]
    /\ call.out = Ok(<<PlotSegment("R", 0, 4), PlotSegment("I", 4, 6),
                       PlotSegment("C", 6, 8), PlotSegment("F", 8, 10)>>)

C18_EdgeWitness ==
    /\ call.fn = "extract_ranges"
    /\ Len(call.args[2]) = SeedMax
    /\ Len(call.out.value) = 3
    /\ Last(call.out.value).end = SeedMax

---------------------------------------------------------------------------
(* C19: for a row of more cells than the coordinate type can count,
   extraction ends in an error; it yields no segment whose coordinates
   wrapped around or whose start is not below its end. *)
C19_WideRowFailsFast ==
    (call.fn = "extract_ranges" /\ Len(call.args[2]) > SeedMax) =>
        /\ ~call.out.ok
        /\ \A i \in 1..Len(call.out.value) :
               call.out.value[i].start < call.out.value[i].end

(* What the code does on such a row: some build returns segments, and they
   are not the runs of the row *)
WideRowIsExtractedWrong ==
    (call.fn = "none" /\ call.args[1] = "row" /\ Len(call.args[2]) > SeedMax) =>
        /\ Ok(extract_ranges(call.args[2])) \in ExtractOutcomes(call.args[2])
        /\ ~IsRunsOf(call.args[2], extract_ranges(call.args[2]))

---------------------------------------------------------------------------
(* C20: each of area(), perimeter_count() and sides_count(), called on a
   region with no entries, ends in a panic; none returns a value. *)
C20_EmptyRegionIsFatal ==
    (call.fn \in GeometryFns /\ call.args[2] = {}) => ~call.out.ok

(* What holds of the code: perimeter_count and sides_count panic on the
   empty region, area returns 0 *)
EmptyRegionOutcomes ==
    (call.fn \in GeometryFns /\ call.args[2] = {}) =>
        IF call.fn = "area" THEN call.out = Ok(0) ELSE ~call.out.ok

---------------------------------------------------------------------------
(* C21: in every state of the parse, after every segment and after every
   line, each id of the store maps to a region with at least one entry. *)
C21_NoEmptyRegion == \A k \in DOMAIN plots : plots[k] /= {}

(* every or_default() that made a region was followed by an insert or by an
   extend with entries: an id new in the store comes with entries, and a
   region taken out by a merge has its entries under the id it is merged to *)
NewRegionsHaveEntries ==
    [][ /\ \A k \in DOMAIN plots' \ DOMAIN plots : plots'[k] /= {}
        /\ \A k \in (DOMAIN plots \ DOMAIN plots') :
               plots[k] /= {} /\ plots[k] \subseteq plots'[seg_id'] ]_vars

(* a merge has extended a region, and a line's end has stored entries *)
C21_Witness ==
    /\ pc = "lines"
    /\ removed_ids /= {}
    /\ Cardinality(DOMAIN plots) >= 2
    /\ \E k \in DOMAIN plots : Cardinality(plots[k]) >= 3
    /\ C21_NoEmptyRegion

---------------------------------------------------------------------------
(* C22: for a grid whose lines have unequal lengths, an empty line between
   non-empty ones included, parse_plots returns, and the regions of its
   store are the 4-connected same-label components of the ragged grid (no
   entry reaches beyond the end of its line). *)
IsRagged(G) == \E i, j \in 1..Len(G) : Len(G[i]) /= Len(G[j])

HasEmptyLineBetween(G) ==
    \E i, j, k \in 1..Len(G) : i < j /\ j < k /\ G[i] /= <<>> /\ G[j] = <<>> /\ G[k] /= <<>>

C22_RaggedGridGivesComponents ==
    (Ended /\ IsRagged(input)) => (pc = "done" /\ StoreIsComponents)

(* Whenever parse_plots returns on a ragged grid, the store is the components *)
ReturnedRaggedIsComponents ==
    (pc = "done" /\ IsRagged(input)) => StoreIsComponents

(* a region that goes round the end of a short line, and an empty line
   that cuts a column in two *)
RaggedReturnedWitness ==
    /\ pc = "done"
    /\ input = << <<"A", "A", "A">>, <<"A">>, <<"A", "A", "A">> >>
    /\ Cardinality(DOMAIN plots) = 1

RaggedEmptyLineWitness ==
    /\ pc = "done"
    /\ HasEmptyLineBetween(input)
    /\ input[1] = <<"A", "A">> /\ input[3] = <<"A", "A">>
    /\ Cardinality(DOMAIN plots) = 2

(* the ragged grid AXAAAA / AXAXA / AAAAA ends in the panic of unwrap() *)
RaggedPanicWitness ==
    /\ pc = "panic"
    /\ IsRagged(input)
    /\ Len(input) = 3 /\ Len(input[1]) = 6 /\ Len(input[2]) = 5 /\ Len(input[3]) = 5

---------------------------------------------------------------------------
(* C23: two runs of parse_plots and of the geometry functions on the same
   text end the same way and with the same multiset of (area, perimeter,
   sides) triples over the regions. *)
SecondRunEnded ==
    /\ call.fn = "parse_plots"
    /\ pc \in {"measured", "panic", "aborted"}

C23_SampleWitness ==
    /\ SecondRunEnded
    /\ input = Sample
    /\ Cardinality(DOMAIN result) = 11
    /\ TripleBag(result) = call.out.triples

---------------------------------------------------------------------------
(* C24: once parse_plots has returned, a call of area(), perimeter_count()
   or sides_count() leaves the store and the entries of every region as they
   were, and whatever calls came before it, on whatever regions, it returns
   the value it returns when the regions are measured one after another. *)
SequentialValue(k, fn) ==
    CASE fn = "area" -> call.out[k].area
      [] fn = "perimeter_count" -> call.out[k].perimeter
      [] fn = "sides_count" -> call.out[k].sides

QueryKeepsStore == [][pc = "queries" => plots' = plots]_vars

---------------------------------------------------------------------------
(* C25: at every point of the scan the id a region carries is the id that
   was granted to the segment of the region that comes first in scan order
   (lowest line, then lowest start); so at a merge the region that keeps its
   id has its first entry before the first entry of every region it takes
   in. *)
(* the line the entries of g_line are on *)
TableLine == IF pc \in {"segments", "panic"} THEN line - 1 ELSE line

(* every entry that carries the id k: in the store, in the table of the
   previous line, in the table being built *)
RegionEntries(k) ==
    (IF k \in DOMAIN plots THEN plots[k] ELSE {})
    \cup {<<TableLine, g_line[i].seg>> : i \in {j \in 1..Len(g_line) : g_line[j].id = k}}
    \cup {<<line, new_g_line[i].seg>> :
              i \in {j \in 1..Len(new_g_line) : new_g_line[j].id = k}}

IdsInUse == DOMAIN plots \cup TableIds(g_line) \cup TableIds(new_g_line)

(* read off the text: the runs of a line, the runs that have no cell of
   their label above any of their cells, and how many of those come before
   an entry in scan order, which is the id the generator hands out *)
RunsOfLine(G, y) == {<<y, s>> : s \in Range(extract_ranges(G[y + 1]))}

FirstSeen(G, e) ==
    \/ e[1] = 0
    \/ \A c \in e[2].start..(e[2].end - 1) :
           c >= Len(G[e[1]]) \/ G[e[1]][c + 1] /= e[2].plant

FirstSeenEntries(G) ==
    UNION {{e \in RunsOfLine(G, y) : FirstSeen(G, e)} : y \in 0..(Len(G) - 1)}

GrantedId(seen, e) == Cardinality({f \in seen : EntryLt(f, e)})

C25_IdIsOfEarliestSegment ==
    \A seen \in {FirstSeenEntries(input)} :
        \A k \in IdsInUse :
            \A first \in {FirstRow(RegionEntries(k))} :
                /\ first \in seen
                /\ GrantedId(seen, first) = k

(* at a merge, the first entry of the region that keeps its id comes before
   the first entry of each region taken in *)
SurvivorFormedEarliest ==
    [][ \A j \in removed_ids' \ removed_ids :
            /\ seg_id' < j
            /\ EntryLt(FirstRow(RegionEntries(seg_id')), FirstRow(RegionEntries(j))) ]_vars

(* a region that began on a later line (id 2) and further left than the
   region it is merged into (id 1), the table carrying the id that is left *)
C25_Witness ==
    /\ pc = "segments"
    /\ removed_ids /= {}
    /\ \E k \in TableIds(new_g_line) :
           /\ Cardinality(RegionEntries(k)) >= 4
           /\ \E e \in RegionEntries(k) :
                  /\ FirstSeen(input, e)
                  /\ GrantedId(FirstSeenEntries(input), e) \in removed_ids
                  /\ e[2].start < FirstRow(RegionEntries(k))[2].start

---------------------------------------------------------------------------
(* C26: when process_line has returned for line N the table holds one entry
   for each run of line N and nothing of line N-1, from left to right
   (starts ascending, intervals disjoint), every entry with matched false. *)
LineReturned == pc = "lines" /\ input /= <<>>

C26_TableIsRunsOfLine ==
    LineReturned =>
        /\ Len(g_line) = Cardinality(MaximalRuns(Last(input)))
        /\ {g_line[i].seg : i \in 1..Len(g_line)} = MaximalRuns(Last(input))
        /\ \A i \in 1..Len(g_line) :
               /\ ~g_line[i].matched
               /\ i < Len(g_line) => g_line[i].seg.end <= g_line[i + 1].seg.start

(* the second line has returned: the line before had other runs, some of them
   matched, and a merge took place on this line *)
C26_Witness ==
    /\ LineReturned
    /\ Len(input) >= 2
    /\ Len(g_line) >= 3
    /\ MaximalRuns(input[Len(input) - 1]) /= MaximalRuns(Last(input))
    /\ removed_ids /= {}
    /\ \A i \in 1..Len(g_line) : ~g_line[i].matched

---------------------------------------------------------------------------
(* C27: in sides_count, for two lines of a region one above the other, a key
   that is among the keys of one of the two lines only adds one corner and a
   key among the keys of both adds none; the key of a start is never the key
   of an end, so where a segment of the region starts at the coordinate at
   which a segment of the region ends on the line next to it, both keys are
   counted. *)
LineKeys(rows, y) ==
    {StartKey(e[2]) : e \in {f \in rows : f[1] = y}}
    \cup {EndKey(e[2]) : e \in {f \in rows : f[1] = y}}

(* the window the fold holds when it counts the corners between the lines y
   and y + 1 (plot.rs:145) *)
WindowOf(rows, y) ==
    LET b == get_plot_bounding_segs(rows).value
    IN  RangeExclusive(rows, <<y, b[1]>>, <<y + 1, b[2]>>)

DiagonalPairs(rows, y) ==
    {p \in rows \X rows :
        /\ {p[1][1], p[2][1]} = {y, y + 1}
        /\ p[1][2].start = p[2][2].end}

KeysOfPairCancel(rows) ==
    /\ \A e, f \in rows : StartKey(e[2]) /= EndKey(f[2])
    /\ \A y \in FirstRow(rows)[1]..(LastRow(rows)[1] - 1) :
           /\ Corners(WindowOf(rows, y)) =
                  (LineKeys(rows, y) \cup LineKeys(rows, y + 1))
                  \ (LineKeys(rows, y) \cap LineKeys(rows, y + 1))
           /\ \A p \in DiagonalPairs(rows, y) :
                  {StartKey(p[1][2]), EndKey(p[2][2])} \subseteq Corners(WindowOf(rows, y))

C27_KeysCancelInPairs ==
    pc = "measured" => \A k \in DOMAIN plots : KeysOfPairCancel(plots[k])

(* the region X of CornerGrid: X:0..3 ends on line 1 where X:3..4 starts on
   line 2, and both keys are among the corners of that pair of lines *)
DiagonalTouchWitness ==
    /\ pc = "measured"
    /\ input = CornerGrid
    /\ \E k \in DOMAIN plots :
           /\ DiagonalPairs(plots[k], 1) /= {}
           /\ KeysOfPairCancel(plots[k])
           /\ result[k].sides = Ok(24)

(* a column at the last coordinate, on two lines: the keys of its start and
   its end are among the keys of both lines and are counted all the same *)
EastColumnKeysCounted ==
    /\ pc = "measured"
    /\ \E k \in DOMAIN plots :
           /\ plots[k] = {<<0, PlotSegment("X", SeedMax - 1, SeedMax)>>,
                          <<1, PlotSegment("X", SeedMax - 1, SeedMax)>>}
           /\ LineKeys(plots[k], 0) = LineKeys(plots[k], 1)
           /\ Cardinality(Corners(WindowOf(plots[k], 0))) = 2

---------------------------------------------------------------------------
(* C28: for every grid, each id that process_line takes out of the store
   with plots.remove(&id).unwrap() is in the store at that moment, also when
   the new segment overlaps two or more entries of the previous line that
   carry the same id other than the master's: the region is merged once and
   the turn ends without a panic. *)
C28_DeprecatedIdIsPresent ==
    [][ AtSegment =>
            /\ pc' /= "panic"
            /\ Range(depr_ids') \subseteq removed_ids'
            /\ Range(depr_ids') \cap DOMAIN plots' = {} ]_vars

(* the list of deprecated ids names one id twice, and the second removal
   finds nothing *)
TwoProngPanic ==
    /\ pc = "panic"
    /\ Len(depr_ids) = 2
    /\ depr_ids[1] = depr_ids[2]
    /\ depr_ids[1] \in removed_ids
    /\ depr_ids[1] \notin DOMAIN plots

(* the panic comes from such a list and from nothing else *)
PanicOnlyOnRepeatedId ==
    pc = "panic" =>
        \E i, j \in 1..Len(depr_ids) : i < j /\ depr_ids[i] = depr_ids[j]

---------------------------------------------------------------------------
(* C29: on every table a parse reaches, the overlaps of parser.rs (the prefix
   of the entries with segment.end > entry.start, then the filter) gives the
   same list of (index, id) pairs as the overlaps of garden.rs (the filter
   over the whole table), and so process_segment of garden.rs returns what
   the one of parser.rs returns: the two parsers, alike in everything else,
   go through the same states and build the same store. *)
C29_EarlyExitEqualsFullScan ==
    AtSegment =>
        /\ \A i \in 1..Len(segments) :
               overlaps(g_line, segments[i]) = overlaps_full(g_line, segments[i])
        /\ process_segment_garden(Head(segments), plots, g_line, line,
                                  id_generator(next_plot_id).value)
           = process_segment(Head(segments), plots, g_line, line,
                             id_generator(next_plot_id).value)

(* the early exit leaves entries out, two entries match, and entries that
   were left out carry the segment's label *)
C29_Witness ==
    /\ AtSegment
    /\ TakeWhileLen(g_line, Head(segments), 1) < Len(g_line)
    /\ Len(overlaps(g_line, Head(segments))) >= 2
    /\ \E i \in (TakeWhileLen(g_line, Head(segments), 1) + 1)..Len(g_line) :
           g_line[i].seg.plant = Head(segments).plant
    /\ overlaps(g_line, Head(segments)) = overlaps_full(g_line, Head(segments))

---------------------------------------------------------------------------
(* C30: perimeter_count() and sides_count() give the same value for a region
   and for the region with every segment moved by one offset that keeps it
   within the coordinates 0..Seed::MAX, a segment that ends at Seed::MAX
   included. *)
Shift(rows, d) ==
    {<<e[1], PlotSegment(e[2].plant, e[2].start + d, e[2].end + d)>> : e \in rows}

Offsets(rows) ==
    {d \in 0..SeedMax : \A e \in rows : e[2].end + d <= SeedMax}

PositionFns == {"perimeter_count", "sides_count"}

C30_PositionIndependent ==
    (call.fn \in PositionFns /\ call.args[2] /= {}) =>
        \A d \in Offsets(call.args[2]) :
            Geometry(call.fn, Shift(call.args[2], d)) = call.out

(* What holds of the code: the perimeter is the same at every offset, and so
   is the number of sides unless the offset puts a segment on the last cell,
   where it equals the east bounding segment *)
OnEastBound(rows) ==
    \E e \in rows : e[2].start = SeedMax - 1 /\ e[2].end = SeedMax

PositionIndependentButEastCell ==
    (call.fn \in PositionFns /\ call.args[2] /= {}) =>
        \A d \in Offsets(call.args[2]) :
            (call.fn = "perimeter_count" \/ ~OnEastBound(Shift(call.args[2], d))) =>
                Geometry(call.fn, Shift(call.args[2], d)) = call.out

(* one cell: 4 sides at column 0, 2 sides at the last column *)
EastCellLosesSides ==
    /\ call.fn = "sides_count"
    /\ call.args[2] = {<<0, PlotSegment("A", 0, 1)>>}
    /\ call.out = Ok(4)
    /\ sides_count(Shift(call.args[2], SeedMax - 1)) = Ok(2)
    /\ perimeter_count(Shift(call.args[2], SeedMax - 1)) = perimeter_count(call.args[2])

=============================================================================
